---- MODULE Spec2Model ----
(***************************************************************************)
(* A model of the NYC collisions ETL pipeline (bronze -> silver -> gold).  *)
(*                                                                         *)
(* Tables are sequences of records.  A nullable value is an option:        *)
(* Null == <<>> and Some(v) == <<v>>.  A CSV cell is its text, a sequence  *)
(* of one-character strings; the empty text is the null cell.  A Float64   *)
(* holding a temperature is kept in tenths (fixed point, one decimal).     *)
(*                                                                         *)
(* Each part of the pipeline has its own specification over its own        *)
(* variables; the variables of the other parts stay idle.                  *)
(***************************************************************************)
EXTENDS Integers, Sequences, FiniteSets, TLC

VARIABLES
    \* ---- GoldProcessor.process_gold_data
    collisions_data,   \* the standardized collisions table
    holidays_data,     \* the standardized holidays table
    weather_data,      \* the standardized weather table
    df_enriched,       \* result of _enrich_collisions
    df_gold,           \* result of _aggregate_stats
    goldPc,            \* "idle" | "start" | "done"
    \* ---- SilverProcessor.process_collisions
    bronze_collisions,      \* the raw collisions CSV file (rows of text cells)
    collisions_input,       \* how input_data is passed: "Path" | "DataFrame"
    fill_null_text_raises,  \* whether this polars build rejects fill_null(0) on a text column
    df_collisions_silver,   \* what process_collisions returned (or the error it raised)
    collPc,                 \* "idle" | "start" | "done"
    \* ---- SilverProcessor.process_weather
    bronze_weather,         \* the raw weather CSV file (rows of text cells)
    df_weather_mem,         \* process_weather(df_weather_bronze, ...): result or error
    df_weather_path,        \* process_weather(path_weather_bronze, ...): result or error
    weatherPc,              \* the calls made so far, of "mem" and "path" ({"idle"}: none to make)
    \* ---- the persisted layers, over repeated calls of the processors
    silver_dir,             \* what is at <silver>/collisions, /holidays, /weather
    gold_dir,               \* what is at the gold base path
    last_call,              \* the last processor call: [proc, status, written, before]
    \* ---- BronzeExtractor.fetch_holidays
    fh_years,               \* the years list of the configuration
    fh_i,                   \* index of the year the loop is at
    all_holidays,           \* the records collected so far
    fh_outcomes,            \* per year requested: Null (the request failed) or Some(payload)
    holidays_file,          \* the file at output_path: Null or Some(content)
    fh_file_at_start,       \* the file at output_path when the call started
    fh_result,              \* what the call returned or raised
    fhPc,                   \* "idle" | "loop" | "done"
    \* ---- BronzeExtractor.download_file_from_url
    bronze_file,            \* the file at output_path: Null or Some(chunks written)
    dl_body,                \* the chunks of the response still to be streamed
    dl_requests,            \* network requests issued by the current call
    dl_file_at_start,       \* the file at output_path when the current call started
    dl_result,              \* what the current call returned or raised
    dl_calls,               \* calls made so far
    dlPc,                   \* position in download_file_from_url
    \* ---- main and run_pipeline
    verbose,                \* the --verbose flag
    ppc,                    \* position in main / run_pipeline
    exc,                    \* the exception in flight: [cls, code]
    raised,                 \* class of the exception a step raised ("none": no step failed)
    failed_step,            \* the step that raised ("none": no step failed)
    steps_started,          \* the steps of run_pipeline started so far, in order
    gold_in_run,            \* the gold directory in this run: "untouched" | "wiped" | "written"
    exit_status,            \* the exit status of the process (-1: still running)
    \* ---- the input representation handed to a processor
    ty_proc,                \* the entry point called
    ty_inputs,              \* per input of the call, the kind of value passed
    ty_result,              \* what the call did: [status, table, cleaned]
    tyPc,                   \* "idle" | "start" | "done"
    \* ---- SilverProcessor.process_holidays, called repeatedly
    hol_input,              \* the raw holiday records
    hol_with_dups,          \* the same records with exact duplicates added
    hol_first,              \* process_holidays(hol_input): result or error
    hol_again,              \* process_holidays(hol_input), a second time
    hol_dedup,              \* process_holidays(hol_with_dups)
    holPc,                  \* the calls made so far, of "first", "again", "dups"
    \* ---- two runs of the pipeline over the same raw inputs
    rr_collisions,          \* the standardized collisions of both runs
    rr_holidays,            \* the standardized holidays, as a set of rows
    rr_weather,             \* the standardized weather of both runs
    rr_first,               \* the aggregate table the first run wrote
    rr_second,              \* the aggregate table the second run wrote
    rrPc                    \* the runs made so far: 0, 1, 2 (-1: idle)

goldVars == <<collisions_data, holidays_data, weather_data, df_enriched, df_gold, goldPc>>
collVars == <<bronze_collisions, collisions_input, fill_null_text_raises,
              df_collisions_silver, collPc>>

weatherVars == <<bronze_weather, df_weather_mem, df_weather_path, weatherPc>>

persistVars == <<silver_dir, gold_dir, last_call>>

fetchVars == <<fh_years, fh_i, all_holidays, fh_outcomes, holidays_file, fh_file_at_start,
               fh_result, fhPc>>
dlVars == <<bronze_file, dl_body, dl_requests, dl_file_at_start, dl_result, dl_calls, dlPc>>

mainVars == <<verbose, ppc, exc, raised, failed_step, steps_started, gold_in_run, exit_status>>

typeVars == <<ty_proc, ty_inputs, ty_result, tyPc>>

holVars == <<hol_input, hol_with_dups, hol_first, hol_again, hol_dedup, holPc>>

rerunVars == <<rr_collisions, rr_holidays, rr_weather, rr_first, rr_second, rrPc>>

restVars == <<typeVars, holVars, rerunVars>>

vars == <<goldVars, collVars, weatherVars, persistVars, fetchVars, dlVars, mainVars, restVars>>

IdleTypes == ty_proc = "none" /\ ty_inputs = <<>> /\ ty_result = <<>> /\ tyPc = "idle"

IdleHol ==
    /\ hol_input = <<>> /\ hol_with_dups = <<>> /\ hol_first = <<>> /\ hol_again = <<>>
    /\ hol_dedup = <<>> /\ holPc = {"idle"}

IdleRerun ==
    /\ rr_collisions = <<>> /\ rr_holidays = {} /\ rr_weather = <<>> /\ rr_first = <<>>
    /\ rr_second = <<>> /\ rrPc = -1

IdleRest == IdleTypes /\ IdleHol /\ IdleRerun

NoExc == [cls |-> "none", code |-> 0]

IdleMain ==
    /\ verbose = FALSE /\ ppc = "idle" /\ exc = NoExc /\ raised = "none"
    /\ failed_step = "none" /\ steps_started = <<>> /\ gold_in_run = "untouched"
    /\ exit_status = -1

IdleFetch ==
    /\ fh_years = <<>> /\ fh_i = 0 /\ all_holidays = <<>> /\ fh_outcomes = <<>>
    /\ holidays_file = <<>> /\ fh_file_at_start = <<>> /\ fh_result = <<>> /\ fhPc = "idle"

IdleDl ==
    /\ bronze_file = <<>> /\ dl_body = <<>> /\ dl_requests = 0 /\ dl_file_at_start = <<>>
    /\ dl_result = <<>> /\ dl_calls = 0 /\ dlPc = "idle"

IdlePersist == silver_dir = <<>> /\ gold_dir = <<>> /\ last_call = <<>>

IdleGold ==
    /\ collisions_data = <<>> /\ holidays_data = <<>> /\ weather_data = <<>>
    /\ df_enriched = <<>> /\ df_gold = <<>> /\ goldPc = "idle"

IdleWeather ==
    /\ bronze_weather = <<>> /\ df_weather_mem = <<>> /\ df_weather_path = <<>>
    /\ weatherPc = {"idle"}

IdleColl ==
    /\ bronze_collisions = <<>> /\ collisions_input = "Path"
    /\ fill_null_text_raises = FALSE
    /\ df_collisions_silver = <<>> /\ collPc = "idle"

----------------------------------------------------------------------------
(* Generic helpers *)

Null == <<>>
Some(v) == <<v>>
IsNull(o) == o = <<>>

SeqsUpTo(S, n) == UNION {[1..k -> S] : k \in 0..n}

RECURSIVE SumSeq(_)
SumSeq(s) == IF s = <<>> THEN 0 ELSE Head(s) + SumSeq(Tail(s))

RECURSIVE FlatMap(_, _)
\* concatenation of F(s[1]), F(s[2]), ... (F yields a sequence)
FlatMap(F(_), s) == IF s = <<>> THEN <<>> ELSE F(Head(s)) \o FlatMap(F, Tail(s))

MapSeq(F(_), s) == [i \in 1..Len(s) |-> F(s[i])]

Range(s) == {s[i] : i \in 1..Len(s)}

Count(P(_), s) == Cardinality({i \in 1..Len(s) : P(s[i])})

NoDuplicates(s) == \A i, j \in 1..Len(s) : s[i] = s[j] => i = j

\* all orderings of a finite set, as sequences without repetition
RECURSIVE Perms(_)
Perms(S) == IF S = {} THEN {<<>>}
            ELSE UNION {{<<x>> \o p : p \in Perms(S \ {x})} : x \in S}

MkDate(y, m, d) == [year |-> y, month |-> m, day |-> d]

\* date order (year, month, day)
DateLeq(a, b) ==
    \/ a.year < b.year
    \/ a.year = b.year /\ a.month < b.month
    \/ a.year = b.year /\ a.month = b.month /\ a.day <= b.day

----------------------------------------------------------------------------
(* GoldProcessor *)

METRIC_COLS == {"number_of_persons_injured", "number_of_persons_killed",
                "number_of_pedestrians_injured", "number_of_pedestrians_killed",
                "number_of_cyclist_injured", "number_of_cyclist_killed",
                "number_of_motorist_injured", "number_of_motorist_killed"}

\* pl.col("types").list.contains(tag): null when the list is null
ListContains(types, tag) ==
    IF IsNull(types) THEN Null ELSE Some(tag \in Range(types[1]))

\* a | b on nullable booleans (Kleene): true wins over null
OrNull(a, b) ==
    IF a = Some(TRUE) \/ b = Some(TRUE) THEN Some(TRUE)
    ELSE IF IsNull(a) \/ IsNull(b) THEN Null
    ELSE Some(FALSE)

\* expr.fill_null(v), yielding the plain value
FillNull(o, v) == IF IsNull(o) THEN v ELSE o[1]

\* lf_weather.select([...]): drops weather's own year/month and the measurements
WeatherClean(w) ==
    [date |-> w.date, temp_max_c |-> w.temp_max_c, temp_min_c |-> w.temp_min_c,
     has_rain |-> w.has_rain, has_snow |-> w.has_snow, is_foggy |-> w.is_foggy]

\* a filter that keeps only the years after 2020
YearFilterAfter2020(c) == c.date.year > 2020

\* .filter(pl.col("date").dt.year() >= 2020)
YearFilter(c) == c.date.year >= 2020

\* .join(lf_holidays, on="date", how="left"): one output row per matching
\* holiday row, or one row with null holiday columns when none matches
JoinHolidays(c, holidays) ==
    LET m == SelectSeq(holidays, LAMBDA h : h.date = c.date)
    IN  IF m = <<>> THEN << [c |-> c, holiday_name |-> Null, types |-> Null] >>
        ELSE [i \in 1..Len(m) |->
                [c |-> c, holiday_name |-> Some(m[i].holiday_name), types |-> Some(m[i].types)]]

\* .join(weather_clean, on="date", how="left")
JoinWeather(r, weather) ==
    LET m == SelectSeq(weather, LAMBDA w : w.date = r.c.date)
    IN  IF m = <<>>
        THEN << [c |-> r.c, holiday_name |-> r.holiday_name, types |-> r.types,
                 temp_max_c |-> Null, temp_min_c |-> Null,
                 has_rain |-> Null, has_snow |-> Null, is_foggy |-> Null] >>
        ELSE [i \in 1..Len(m) |->
                [c |-> r.c, holiday_name |-> r.holiday_name, types |-> r.types,
                 temp_max_c |-> m[i].temp_max_c, temp_min_c |-> m[i].temp_min_c,
                 has_rain |-> Some(m[i].has_rain), has_snow |-> Some(m[i].has_snow),
                 is_foggy |-> Some(m[i].is_foggy)]]

\* a with_columns that fills the unmatched weather flags with True
EnrichRowRainByDefault(j) ==
    [date |-> j.c.date, borough |-> j.c.borough, zip_code |-> j.c.zip_code,
     is_weekend |-> j.c.is_weekend, metrics |-> j.c.metrics,
     holiday_name |-> FillNull(j.holiday_name, "Non-Holiday"),
     high_impact_holiday |->
        FillNull(OrNull(ListContains(j.types, "Public"), ListContains(j.types, "Bank")), FALSE),
     partial_impact_holiday |->
        FillNull(OrNull(ListContains(j.types, "School"), ListContains(j.types, "Authorities")), FALSE),
     low_impact_holiday |->
        FillNull(OrNull(ListContains(j.types, "Optional"), ListContains(j.types, "Observance")), FALSE),
     has_rain |-> FillNull(j.has_rain, TRUE),
     has_snow |-> FillNull(j.has_snow, FALSE),
     is_foggy |-> FillNull(j.is_foggy, FALSE),
     max_temp |-> j.temp_max_c, min_temp |-> j.temp_min_c]

\* .with_columns([...]) of _enrich_collisions
EnrichRow(j) ==
    [date |-> j.c.date, borough |-> j.c.borough, zip_code |-> j.c.zip_code,
     is_weekend |-> j.c.is_weekend, metrics |-> j.c.metrics,
     holiday_name |-> FillNull(j.holiday_name, "Non-Holiday"),
     high_impact_holiday |->
        FillNull(OrNull(ListContains(j.types, "Public"), ListContains(j.types, "Bank")), FALSE),
     partial_impact_holiday |->
        FillNull(OrNull(ListContains(j.types, "School"), ListContains(j.types, "Authorities")), FALSE),
     low_impact_holiday |->
        FillNull(OrNull(ListContains(j.types, "Optional"), ListContains(j.types, "Observance")), FALSE),
     has_rain |-> FillNull(j.has_rain, FALSE),
     has_snow |-> FillNull(j.has_snow, FALSE),
     is_foggy |-> FillNull(j.is_foggy, FALSE),
     max_temp |-> j.temp_max_c, min_temp |-> j.temp_min_c]

_enrich_collisions(lf_collisions, lf_holidays, lf_weather) ==
    LET weather_clean == MapSeq(WeatherClean, lf_weather)
        filtered == SelectSeq(lf_collisions, YearFilter)
        j1 == FlatMap(LAMBDA c : JoinHolidays(c, lf_holidays), filtered)
        j2 == FlatMap(LAMBDA r : JoinWeather(r, weather_clean), j1)
    IN  MapSeq(EnrichRow, j2)

\* group columns without the borough
GroupKeyNoBorough(e) ==
    [date |-> e.date, borough |-> "UNKNOWN", zip_code |-> e.zip_code,
     is_weekend |-> e.is_weekend, holiday_name |-> e.holiday_name,
     high_impact_holiday |-> e.high_impact_holiday,
     partial_impact_holiday |-> e.partial_impact_holiday,
     low_impact_holiday |-> e.low_impact_holiday,
     has_rain |-> e.has_rain, has_snow |-> e.has_snow, is_foggy |-> e.is_foggy,
     max_temp |-> e.max_temp, min_temp |-> e.min_temp]

\* group_cols of _aggregate_stats
GroupKey(e) ==
    [date |-> e.date, borough |-> e.borough, zip_code |-> e.zip_code,
     is_weekend |-> e.is_weekend, holiday_name |-> e.holiday_name,
     high_impact_holiday |-> e.high_impact_holiday,
     partial_impact_holiday |-> e.partial_impact_holiday,
     low_impact_holiday |-> e.low_impact_holiday,
     has_rain |-> e.has_rain, has_snow |-> e.has_snow, is_foggy |-> e.is_foggy,
     max_temp |-> e.max_temp, min_temp |-> e.min_temp]

\* .agg([pl.len().alias("total_accidents"), pl.col(METRIC_COLS).sum()]) of one group
AggRow(k, enriched) ==
    LET grp == SelectSeq(enriched, LAMBDA e : GroupKey(e) = k)
    IN  [key |-> k,
         total_accidents |-> Len(grp),
         metrics |-> [m \in METRIC_COLS |-> SumSeq([i \in 1..Len(grp) |-> grp[i].metrics[m]])]]

AggRows(enriched) == {AggRow(k, enriched) : k \in {GroupKey(e) : e \in Range(enriched)}}

\* .sort("date"): ascending by date
SortedByDate(s) == \A i \in 1..Len(s) - 1 : DateLeq(s[i].key.date, s[i + 1].key.date)

\* group_by(...) yields its groups in no particular order (maintain_order is
\* not set) and sort("date") orders by date only: every ordering of the groups
\* that ascends by date is a possible result
_aggregate_stats(enriched_df) == {s \in Perms(AggRows(enriched_df)) : SortedByDate(s)}

\* ---- inputs

D2019 == MkDate(2019, 12, 31)
DJul4 == MkDate(2021, 7, 4)
D2020 == MkDate(2020, 1, 1)

Metrics(n) == [m \in METRIC_COLS |-> IF m = "number_of_persons_injured" THEN n ELSE 0]

CollisionRow(d, b, wk, n) ==
    [date |-> d, borough |-> b, zip_code |-> Some(11201), is_weekend |-> wk,
     metrics |-> Metrics(n), year |-> d.year, month |-> d.month]

CollisionRows ==
    {CollisionRow(D2019, "BK", FALSE, 1), CollisionRow(DJul4, "BK", TRUE, 1),
     CollisionRow(DJul4, "UNKNOWN", TRUE, 2), CollisionRow(D2020, "BK", FALSE, 0)}

HolidayRow(d, n, t) ==
    [date |-> d, holiday_name |-> n, types |-> t, year |-> d.year, month |-> d.month]

HolidayRows ==
    {HolidayRow(DJul4, "Independence Day", <<"Public">>),
     HolidayRow(DJul4, "Family Day", <<"Observance", "School">>),
     HolidayRow(D2020, "Quiet Day", <<"Local">>)}

WeatherRow(d, tmax, tmin, prcp) ==
    [date |-> d, temp_max_c |-> tmax, temp_min_c |-> tmin,
     precipitation_mm |-> Some(prcp), snow_mm |-> Some(0),
     is_foggy |-> FALSE, has_rain |-> prcp > 0, has_snow |-> FALSE,
     year |-> d.year, month |-> d.month]

WeatherRows ==
    {WeatherRow(DJul4, Some(250), Some(180), 50), WeatherRow(D2020, Null, Some(-50), 0)}

MaxCollisions == 3
MaxHolidays == 2
MaxWeather == 2

InitGold ==
    /\ collisions_data \in SeqsUpTo(CollisionRows, MaxCollisions)
    \* process_holidays ends with unique(): no two identical holiday rows
    /\ holidays_data \in {h \in SeqsUpTo(HolidayRows, MaxHolidays) : NoDuplicates(h)}
    /\ weather_data \in SeqsUpTo(WeatherRows, MaxWeather)
    /\ df_enriched = <<>>
    /\ df_gold = <<>>
    /\ goldPc = "start"
    /\ IdleColl /\ IdleWeather /\ IdlePersist /\ IdleFetch /\ IdleDl /\ IdleMain /\ IdleRest

\* process_gold_data on in-memory tables: enrich, then aggregate
process_gold_data ==
    /\ goldPc = "start"
    /\ LET e == _enrich_collisions(collisions_data, holidays_data, weather_data)
       IN  /\ df_enriched' = e
           /\ df_gold' \in _aggregate_stats(e)
    /\ goldPc' = "done"
    /\ UNCHANGED <<collisions_data, holidays_data, weather_data>>
    /\ UNCHANGED <<collVars, weatherVars, persistVars, fetchVars, dlVars, mainVars, restVars>>

NextGold == process_gold_data

SpecGold == InitGold /\ [][NextGold]_vars

----------------------------------------------------------------------------
(* Text cells, CSV loading, dates *)

Digits == {"0", "1", "2", "3", "4", "5", "6", "7", "8", "9"}

DigitVal(c) ==
    CASE c = "0" -> 0 [] c = "1" -> 1 [] c = "2" -> 2 [] c = "3" -> 3 [] c = "4" -> 4
      [] c = "5" -> 5 [] c = "6" -> 6 [] c = "7" -> 7 [] c = "8" -> 8 [] c = "9" -> 9

RECURSIVE DigitsValue(_, _)
DigitsValue(s, acc) ==
    IF s = <<>> THEN acc ELSE DigitsValue(Tail(s), 10 * acc + DigitVal(Head(s)))

\* unsigned decimal: Some(n), or Null when the text is not all digits
ParseNat(s) ==
    IF s # <<>> /\ \A i \in 1..Len(s) : s[i] \in Digits THEN Some(DigitsValue(s, 0)) ELSE Null

\* signed decimal, -?[0-9]+ : Some(n), or Null
ParseInt(s) ==
    IF s # <<>> /\ Head(s) = "-"
    THEN (IF IsNull(ParseNat(Tail(s))) THEN Null ELSE Some(0 - ParseNat(Tail(s))[1]))
    ELSE ParseNat(s)

RECURSIVE SplitOn(_, _, _)
\* the parts of s between occurrences of sep (cur is the part being read)
SplitOn(s, sep, cur) ==
    IF s = <<>> THEN <<cur>>
    ELSE IF Head(s) = sep THEN <<cur>> \o SplitOn(Tail(s), sep, <<>>)
    ELSE SplitOn(Tail(s), sep, Append(cur, Head(s)))

IsLeap(y) == (y % 4 = 0 /\ y % 100 # 0) \/ y % 400 = 0

DaysInMonth(y, m) ==
    IF m = 2 THEN (IF IsLeap(y) THEN 29 ELSE 28)
    ELSE IF m \in {4, 6, 9, 11} THEN 30 ELSE 31

ValidDate(y, m, d) == m \in 1..12 /\ d \in 1..DaysInMonth(y, m)

\* strptime of a text with three numeric fields: Some(date), or Null.
\* fmt is "%m/%d/%Y" or "%Y-%m-%d"
ParseDate(s, fmt) ==
    LET sep == IF fmt = "%m/%d/%Y" THEN "/" ELSE "-"
        parts == SplitOn(s, sep, <<>>)
        n == [i \in 1..Len(parts) |-> ParseNat(parts[i])]
    IN  IF Len(parts) # 3 \/ \E i \in 1..3 : IsNull(n[i]) THEN Null
        ELSE LET y == IF fmt = "%m/%d/%Y" THEN n[3][1] ELSE n[1][1]
                 m == IF fmt = "%m/%d/%Y" THEN n[1][1] ELSE n[2][1]
                 d == IF fmt = "%m/%d/%Y" THEN n[2][1] ELSE n[3][1]
             IN  IF ValidDate(y, m, d) THEN Some(MkDate(y, m, d)) ELSE Null

\* day of the week, 0 = Sunday (Sakamoto)
DayOfWeek(dt) ==
    LET t == <<0, 3, 2, 5, 0, 3, 5, 1, 4, 6, 2, 4>>
        y == IF dt.month < 3 THEN dt.year - 1 ELSE dt.year
    IN  (y + (y \div 4) - (y \div 100) + (y \div 400) + t[dt.month] + dt.day) % 7

\* dt.weekday(): ISO, Monday = 1 ... Sunday = 7
Weekday(dt) == IF DayOfWeek(dt) = 0 THEN 7 ELSE DayOfWeek(dt)

Min(a, b) == IF a < b THEN a ELSE b

\* schema inference of one CSV column over the first n rows: Int64 when every
\* non-empty cell is a signed decimal (and there is one), String otherwise
\* (the inputs hold no decimal point, so Float64 is never inferred)
InferDtype(rows, col, n) ==
    LET pre == SubSeq(rows, 1, Min(Len(rows), n))
        cells == {pre[i][col] : i \in 1..Len(pre)} \ {<<>>}
    IN  IF cells # {} /\ \A c \in cells : ~IsNull(ParseInt(c)) THEN "Int64" ELSE "String"

\* one cell read as dtype under ignore_errors=True: the empty cell is null, and
\* a cell that does not parse as the column's type becomes null
ReadCell(dtype, cell) ==
    IF cell = <<>> THEN Null
    ELSE IF dtype = "Int64" THEN ParseInt(cell)
    ELSE Some(cell)

\* read_csv / scan_csv(ignore_errors=True, infer_schema_length=n); n = 0 reads
\* every column as String
ReadCsv(rows, cols, n) ==
    LET dt == [c \in cols |-> IF n = 0 THEN "String" ELSE InferDtype(rows, c, n)]
    IN  [dtype |-> dt,
         rows |-> [i \in 1..Len(rows) |-> [c \in cols |-> ReadCell(dt[c], rows[i][c])]]]

\* infer_schema_length of BronzeExtractor.download_file_from_url's read_csv
BronzeInferSchemaLength == 10000
\* infer_schema_length of a scan_csv call that does not set it (polars default)
ScanInferSchemaLength == 100

Txt1(a) == <<a>>
UNKNOWN == <<"U", "N", "K", "N", "O", "W", "N">>

----------------------------------------------------------------------------
(* SilverProcessor.process_collisions *)

COLLISION_RENAME_MAP ==
    [h \in {"CRASH DATE", "CRASH TIME", "BOROUGH", "ZIP CODE",
            "NUMBER OF PERSONS INJURED", "NUMBER OF PERSONS KILLED",
            "NUMBER OF PEDESTRIANS INJURED", "NUMBER OF PEDESTRIANS KILLED",
            "NUMBER OF CYCLIST INJURED", "NUMBER OF CYCLIST KILLED",
            "NUMBER OF MOTORIST INJURED", "NUMBER OF MOTORIST KILLED",
            "CONTRIBUTING FACTOR VEHICLE 1"} |->
        CASE h = "CRASH DATE" -> "crash_date"
          [] h = "CRASH TIME" -> "crash_time"
          [] h = "BOROUGH" -> "borough"
          [] h = "ZIP CODE" -> "zip_code"
          [] h = "NUMBER OF PERSONS INJURED" -> "number_of_persons_injured"
          [] h = "NUMBER OF PERSONS KILLED" -> "number_of_persons_killed"
          [] h = "NUMBER OF PEDESTRIANS INJURED" -> "number_of_pedestrians_injured"
          [] h = "NUMBER OF PEDESTRIANS KILLED" -> "number_of_pedestrians_killed"
          [] h = "NUMBER OF CYCLIST INJURED" -> "number_of_cyclist_injured"
          [] h = "NUMBER OF CYCLIST KILLED" -> "number_of_cyclist_killed"
          [] h = "NUMBER OF MOTORIST INJURED" -> "number_of_motorist_injured"
          [] h = "NUMBER OF MOTORIST KILLED" -> "number_of_motorist_killed"
          [] h = "CONTRIBUTING FACTOR VEHICLE 1" -> "contributing_factor_vehicle_1"]

\* the source header of a canonical column name
SourceCol(name) == CHOOSE h \in DOMAIN COLLISION_RENAME_MAP : COLLISION_RENAME_MAP[h] = name

\* the columns of the raw collisions file: the mapped ones and one more
CollisionCsvCols == DOMAIN COLLISION_RENAME_MAP \cup {"ON STREET NAME"}

Failed(err) == [status |-> err, rows |-> <<>>]
Ok(rows) == [status |-> "ok", rows |-> rows]

\* step 1 of process_collisions: scan_csv of the path, or the table that
\* download_file_from_url read from the same file
LoadCollisions(file, mode) ==
    ReadCsv(file, CollisionCsvCols,
            IF mode = "Path" THEN ScanInferSchemaLength ELSE BronzeInferSchemaLength)

\* pl.col(METRIC_COLS).fill_null(0).cast(pl.Int32) on one value of a column of
\* the given dtype: [ok, v].  The cast is strict: a text that is no integer
\* raises (the inputs hold no integer outside Int32).  fill_null(0) on a text column either
\* raises or fills with the text "0", depending on the polars build.
MetricValue(dtype, v, raises) ==
    IF dtype = "Int64"
    THEN [ok |-> TRUE, v |-> Some(FillNull(v, 0))]
    ELSE IF IsNull(v) THEN [ok |-> ~raises, v |-> Some(0)]
    ELSE [ok |-> ~IsNull(ParseInt(v[1])), v |-> ParseInt(v[1])]

\* steps 2-3 of process_collisions on the loaded table
TransformCollisions(t, raises) ==
    LET kept == SelectSeq(t.rows, LAMBDA r : ~IsNull(r["CRASH DATE"]))
        src(r, name) == r[SourceCol(name)]
        date(r) == ParseDate(src(r, "crash_date")[1], "%m/%d/%Y")
        metric(r, m) == MetricValue(t.dtype[SourceCol(m)], src(r, m), raises)
    IN  IF ~(DOMAIN COLLISION_RENAME_MAP \subseteq DOMAIN t.dtype)
        THEN Failed("ColumnNotFoundError")
        ELSE IF t.dtype["CRASH DATE"] # "String" \/ t.dtype["BOROUGH"] # "String"
        THEN Failed("SchemaError")
        ELSE IF \E i \in 1..Len(kept) : IsNull(date(kept[i]))
        THEN Failed("InvalidOperationError")
        ELSE IF \E i \in 1..Len(kept) : \E m \in METRIC_COLS : ~metric(kept[i], m).ok
        THEN Failed("InvalidOperationError")
        ELSE Ok([i \in 1..Len(kept) |->
                  LET r == kept[i]
                  IN  [crash_date |-> src(r, "crash_date"),
                       crash_time |-> src(r, "crash_time"),
                       borough |-> FillNull(src(r, "borough"), UNKNOWN),
                       zip_code |-> src(r, "zip_code"),
                       contributing_factor_vehicle_1 |-> src(r, "contributing_factor_vehicle_1"),
                       metrics |-> [m \in METRIC_COLS |-> metric(r, m).v],
                       date |-> date(r)[1],
                       is_weekend |-> Weekday(date(r)[1]) >= 6,
                       year |-> date(r)[1].year,
                       month |-> date(r)[1].month]])

\* ---- inputs

CrashDateCells ==
    {<<>>, <<"0","7","/","0","4","/","2","0","2","1">>,
     <<"1","2","/","3","1","/","2","0","1","9">>,
     <<"2","0","2","1","-","0","7","-","0","4">>}

MetricCells == {<<>>, <<"2">>, <<"-", "1">>, <<"a", "b", "c">>}

BoroughCells == {<<>>, <<"B", "K">>}

\* a raw collisions row: the injured-persons cell varies, the other counters are 0
CollisionCsvRow(dateCell, boroughCell, metricCell) ==
    [h \in CollisionCsvCols |->
        CASE h = "CRASH DATE" -> dateCell
          [] h = "BOROUGH" -> boroughCell
          [] h = "NUMBER OF PERSONS INJURED" -> metricCell
          [] h = "CRASH TIME" -> <<"9", ":", "3", "0">>
          [] h = "ZIP CODE" -> <<"1", "1", "2", "0", "1">>
          [] h = "CONTRIBUTING FACTOR VEHICLE 1" -> <<>>
          [] h = "ON STREET NAME" -> <<"A", "V">>
          [] OTHER -> <<"0">>]

CollisionCsvRows ==
    {CollisionCsvRow(d, b, m) : d \in CrashDateCells, b \in BoroughCells, m \in MetricCells}

MaxCsvRows == 2

InitCollisions ==
    /\ bronze_collisions \in SeqsUpTo(CollisionCsvRows, MaxCsvRows)
    /\ collisions_input \in {"Path", "DataFrame"}
    /\ fill_null_text_raises \in BOOLEAN
    /\ df_collisions_silver = <<>>
    /\ collPc = "start"
    /\ IdleGold /\ IdleWeather /\ IdlePersist /\ IdleFetch /\ IdleDl /\ IdleMain /\ IdleRest

\* process_collisions: load, transform, materialize
process_collisions ==
    /\ collPc = "start"
    /\ df_collisions_silver' =
          TransformCollisions(LoadCollisions(bronze_collisions, collisions_input),
                              fill_null_text_raises)
    /\ collPc' = "done"
    /\ UNCHANGED <<bronze_collisions, collisions_input, fill_null_text_raises>>
    /\ UNCHANGED <<goldVars, weatherVars, persistVars, fetchVars, dlVars, mainVars, restVars>>

NextCollisions == process_collisions

SpecCollisions == InitCollisions /\ [][NextCollisions]_vars

----------------------------------------------------------------------------
(* SilverProcessor.process_weather *)

CharCode(c) ==
    CASE c = " " -> 32 [] c = "-" -> 45 [] c = "/" -> 47 [] c = ":" -> 58
      [] c \in Digits -> 48 + DigitVal(c)
      [] c = "a" -> 97 [] c = "b" -> 98 [] c = "c" -> 99
      [] OTHER -> 65

RECURSIVE TextGeq(_, _)
\* a >= b on texts (lexicographic, by character code)
TextGeq(a, b) ==
    IF b = <<>> THEN TRUE
    ELSE IF a = <<>> THEN FALSE
    ELSE IF CharCode(Head(a)) # CharCode(Head(b)) THEN CharCode(Head(a)) > CharCode(Head(b))
    ELSE TextGeq(Tail(a), Tail(b))

RECURSIVE StripLeft(_)
StripLeft(s) == IF s # <<>> /\ Head(s) = " " THEN StripLeft(Tail(s)) ELSE s

RECURSIVE StripRight(_)
StripRight(s) ==
    IF s # <<>> /\ s[Len(s)] = " " THEN StripRight(SubSeq(s, 1, Len(s) - 1)) ELSE s

\* str.strip_chars()
StripChars(s) == StripRight(StripLeft(s))

WeatherCsvCols == {"STATION", "DATE", "TMAX", "TMIN", "PRCP", "SNOW", "WT01", "WT02"}

\* the columns process_weather applies .str to
WeatherTextCols == {"DATE", "TMAX", "TMIN", "PRCP", "SNOW", "WT01", "WT02"}

Date2020 == <<"2", "0", "2", "0", "-", "0", "1", "-", "0", "1">>

\* step 1 of process_weather: scan_csv with every column read as text, or the
\* table that download_file_from_url read from the same file (schema inferred)
LoadWeather(file, mode) ==
    ReadCsv(file, WeatherCsvCols, IF mode = "Path" THEN 0 ELSE BronzeInferSchemaLength)

\* pl.col(c).str.strip_chars().cast(pl.Float64) on a text value, strict:
\* [ok, v] with v the number (the inputs are whole numbers)
CastFloatStrict(v) ==
    IF IsNull(v) THEN [ok |-> TRUE, v |-> Null]
    ELSE [ok |-> ~IsNull(ParseInt(StripChars(v[1]))), v |-> ParseInt(StripChars(v[1]))]

\* pl.col(c).str.strip_chars().cast(pl.Int32, strict=False): null when the text
\* is no integer
CastIntLenient(v) == IF IsNull(v) THEN Null ELSE ParseInt(StripChars(v[1]))

\* expr == 1, expr > 0 on a nullable number
EqNull(v, n) == IF IsNull(v) THEN Null ELSE Some(v[1] = n)
GtNull(v, n) == IF IsNull(v) THEN Null ELSE Some(v[1] > n)

\* x / 10 kept in tenths of the unit; round(1) leaves a whole number of tenths
Div10Tenths(v) == v
\* x kept in tenths of the unit
Tenths(v) == IF IsNull(v) THEN Null ELSE Some(10 * v[1])

\* steps 2-3 of process_weather on the loaded table
TransformWeather(t) ==
    LET kept == SelectSeq(t.rows, LAMBDA r : ~IsNull(r["DATE"]) /\ TextGeq(r["DATE"][1], Date2020))
        date(r) == ParseDate(r["DATE"][1], "%Y-%m-%d")
        num(r, c) == CastFloatStrict(r[c])
    IN  IF ~(WeatherTextCols \subseteq DOMAIN t.dtype)
        THEN Failed("ColumnNotFoundError")
        ELSE IF \E c \in WeatherTextCols : t.dtype[c] # "String"
        THEN Failed("SchemaError")
        ELSE IF \E i \in 1..Len(kept) : IsNull(date(kept[i]))
        THEN Failed("InvalidOperationError")
        ELSE IF \E i \in 1..Len(kept) : \E c \in {"TMAX", "TMIN", "PRCP", "SNOW"} : ~num(kept[i], c).ok
        THEN Failed("InvalidOperationError")
        ELSE Ok([i \in 1..Len(kept) |->
                  LET r == kept[i]
                  IN  [date |-> date(r)[1],
                       temp_max_c |-> Div10Tenths(num(r, "TMAX").v),
                       temp_min_c |-> Div10Tenths(num(r, "TMIN").v),
                       precipitation_mm |-> Div10Tenths(num(r, "PRCP").v),
                       snow_mm |-> Tenths(num(r, "SNOW").v),
                       is_foggy |-> FillNull(OrNull(EqNull(CastIntLenient(r["WT01"]), 1),
                                                    EqNull(CastIntLenient(r["WT02"]), 1)), FALSE),
                       has_rain |-> FillNull(GtNull(num(r, "PRCP").v, 0), FALSE),
                       has_snow |-> FillNull(GtNull(num(r, "SNOW").v, 0), FALSE),
                       year |-> date(r)[1].year,
                       month |-> date(r)[1].month]])

\* process_weather up to the materialized table
WeatherResult(file, mode) == TransformWeather(LoadWeather(file, mode))

\* ---- inputs

WeatherDateCells ==
    {<<>>, <<"2","0","2","1","-","0","7","-","0","4">>,
     <<"2","0","1","9","-","1","2","-","3","1">>}

\* a temperature as NOAA pads it, a bare number, a missing value, a text
TmaxCells == {<<>>, <<" ", "2", "5", "0">>, <<"2", "5", "0">>, <<"a", "b", "c">>}

PrcpCells == {<<>>, <<" ", "5", "0">>}

Wt01Cells == {<<>>, <<" ", "1">>}

WeatherCsvRow(dateCell, tmax, prcp, wt01) ==
    [h \in WeatherCsvCols |->
        CASE h = "DATE" -> dateCell
          [] h = "TMAX" -> tmax
          [] h = "TMIN" -> <<" ", "-", "5", "0">>
          [] h = "PRCP" -> prcp
          [] h = "WT01" -> wt01
          [] h = "STATION" -> <<"U", "S", "W">>
          [] OTHER -> <<>>]

WeatherCsvRows ==
    {WeatherCsvRow(d, t, p, w) :
        d \in WeatherDateCells, t \in TmaxCells, p \in PrcpCells, w \in Wt01Cells}

InitWeather ==
    /\ bronze_weather \in SeqsUpTo(WeatherCsvRows, MaxCsvRows)
    /\ df_weather_mem = <<>>
    /\ df_weather_path = <<>>
    /\ weatherPc = {}
    /\ IdleGold /\ IdleColl /\ IdlePersist /\ IdleFetch /\ IdleDl /\ IdleMain /\ IdleRest

\* process_weather(input_data = df_weather_bronze), as run_pipeline calls it
process_weather_df ==
    /\ weatherPc \in {{}, {"path"}}
    /\ df_weather_mem' = WeatherResult(bronze_weather, "DataFrame")
    /\ weatherPc' = weatherPc \cup {"mem"}
    /\ UNCHANGED <<bronze_weather, df_weather_path>>
    /\ UNCHANGED <<goldVars, collVars, persistVars, fetchVars, dlVars, mainVars, restVars>>

\* process_weather(input_data = path_weather_bronze)
process_weather_path ==
    /\ weatherPc \in {{}, {"mem"}}
    /\ df_weather_path' = WeatherResult(bronze_weather, "Path")
    /\ weatherPc' = weatherPc \cup {"path"}
    /\ UNCHANGED <<bronze_weather, df_weather_mem>>
    /\ UNCHANGED <<goldVars, collVars, persistVars, fetchVars, dlVars, mainVars, restVars>>

NextWeather == process_weather_df \/ process_weather_path

SpecWeather == InitWeather /\ [][NextWeather]_vars

----------------------------------------------------------------------------
(* SilverProcessor.process_holidays *)

\* steps 2-3 of process_holidays before unique(): select, cast, partition keys
HolidaySelect(records) ==
    LET date(h) == ParseDate(h.date, "%Y-%m-%d")
    IN  IF \E i \in 1..Len(records) : IsNull(date(records[i]))
        THEN Failed("InvalidOperationError")
        ELSE Ok([i \in 1..Len(records) |->
                  [date |-> date(records[i])[1],
                   holiday_name |-> records[i].name,
                   types |-> records[i].types,
                   year |-> date(records[i])[1].year,
                   month |-> date(records[i])[1].month]])

\* a process_holidays without .unique()
KeepRows(rows) == {rows}

\* .unique(): the distinct rows, in no particular order (maintain_order is not set)
Unique(rows) == Perms(Range(rows))

\* the tables process_holidays can return for the raw holiday records
HolidaysResults(records) ==
    LET sel == HolidaySelect(records)
    IN  IF sel.status # "ok" THEN {sel} ELSE {Ok(u) : u \in Unique(sel.rows)}

\* ---- inputs

HolidayRecord(d, n, t) == [date |-> d, name |-> n, types |-> t]

HolidayRecords ==
    {HolidayRecord(<<"2","0","2","1","-","0","7","-","0","4">>, "Independence Day", <<"Public">>),
     HolidayRecord(<<"2","0","2","0","-","0","1","-","0","1">>, "New Year's Day", <<"Public">>),
     HolidayRecord(<<"0","7","/","0","4","/","2","0","2","1">>, "Misdated", <<"Optional">>)}

----------------------------------------------------------------------------
(* The input representation of the processors: the isinstance checks *)

\* what a caller can pass as input_data: a polars DataFrame, a Path to
\* persisted data, a Path under which no file is found, a path given as text,
\* None, a LazyFrame
InputKinds == {"DataFrame", "Path", "PathNoFiles", "str", "None", "LazyFrame"}

\* isinstance(input_data, pl.DataFrame)
IsDataFrame(kind) == kind = "DataFrame"

\* isinstance(input_data, Path)
IsPath(kind) == kind \in {"Path", "PathNoFiles"}

Standardizers == {"process_collisions", "process_holidays", "process_weather"}

\* step 1 of a standardizer, "Load Input to LazyFrame": a path is scanned, a
\* table is made lazy, anything else raises TypeError
LoadInput(kind) ==
    IF IsPath(kind) THEN [status |-> "loaded", table |-> "input_data"]
    ELSE IF IsDataFrame(kind) THEN [status |-> "loaded", table |-> "input_data"]
    ELSE [status |-> "TypeError", table |-> "input_data"]

\* a _normalize_input without its else branch: whatever is not a path is taken
\* for a table and .lazy() is called on it
NormalizeUnchecked(kind, table_name, scan_raises) ==
    IF IsPath(kind)
    THEN (IF kind = "PathNoFiles" /\ scan_raises
          THEN [status |-> "ScanError", table |-> table_name]
          ELSE [status |-> "loaded", table |-> table_name])
    ELSE IF kind \in {"DataFrame", "LazyFrame"} THEN [status |-> "loaded", table |-> table_name]
    ELSE [status |-> "AttributeError", table |-> table_name]

\* GoldProcessor._normalize_input(input_data, table_name).  pl.scan_parquet of
\* a glob that matches no file raises at once or only when the query is
\* collected, depending on the polars build (scan_raises)
_normalize_input(kind, table_name, scan_raises) ==
    IF IsDataFrame(kind) THEN [status |-> "loaded", table |-> table_name]
    ELSE IF IsPath(kind)
    THEN (IF kind = "PathNoFiles" /\ scan_raises
          THEN [status |-> "ScanError", table |-> table_name]
          ELSE [status |-> "loaded", table |-> table_name])
    ELSE [status |-> "TypeError", table |-> table_name]

GoldTables == <<"collisions", "holidays", "weather">>

\* "1. Normalize Inputs" of process_gold_data: collisions, holidays, weather, in
\* that order; the first failure ends the call
NormalizeInputs(kinds, scan_raises) ==
    LET n(i) == _normalize_input(kinds[i], GoldTables[i], scan_raises)
    IN  IF n(1).status # "loaded" THEN n(1)
        ELSE IF n(2).status # "loaded" THEN n(2)
        ELSE n(3)

----------------------------------------------------------------------------
(* Persisting: clean_output_directory, write_parquet, write_csv *)

Absent == [kind |-> "absent", files |-> {}]
RegularFile == [kind |-> "file", files |-> {}]
Dir(files) == [kind |-> "dir", files |-> files]

\* a clean_output_directory that only makes sure the directory exists
MkdirOnly(path) ==
    IF path.kind = "file" THEN [ok |-> FALSE, path |-> path]
    ELSE [ok |-> TRUE, path |-> Dir(path.files)]

\* clean_output_directory(path): rmtree when it is a directory, then
\* mkdir(parents=True, exist_ok=True), which raises FileExistsError when the
\* path is a regular file.  [ok, path]
clean_output_directory(path) ==
    LET removed == IF path.kind = "dir" THEN Absent ELSE path
    IN  IF removed.kind = "file" THEN [ok |-> FALSE, path |-> removed]
        ELSE [ok |-> TRUE, path |-> Dir({})]

\* the files df.write_parquet(output_path, partition_by=by) writes: one per
\* distinct value of the partition columns, holding the rows of that partition
PartitionFiles(rows, by) ==
    LET key(r) == [k \in by |-> r[k]]
    IN  {[path |-> k, content |-> SelectSeq(rows, LAMBDA r : key(r) = k)] :
            k \in {key(r) : r \in Range(rows)}}

\* the directory after the files are written into it (a file of the same path
\* is replaced)
WriteFiles(path, files) ==
    Dir({f \in path.files : \A g \in files : g.path # f.path} \cup files)

\* steps 4 of a processor: clean the output directory, write the files.
\* [status, path, written]
Persist(path, files) ==
    LET c == clean_output_directory(path)
    IN  IF ~c.ok THEN [status |-> "FileExistsError", path |-> c.path, written |-> {}]
        ELSE [status |-> "ok", path |-> WriteFiles(c.path, files), written |-> files]

\* the two files process_gold_data writes
GoldFiles(gold) ==
    {[path |-> "daily_stats.parquet", content |-> gold],
     [path |-> "daily_stats.csv", content |-> gold]}

\* a processor that cleans its output directory before it loads its input
CallOutcomeCleanFirst(proc, r, path, files) ==
    LET w == Persist(path, files)
    IN  IF r.status # "ok"
        THEN [status |-> r.status, path |-> clean_output_directory(path).path, written |-> {},
              proc |-> proc, before |-> path]
        ELSE [status |-> w.status, path |-> w.path, written |-> w.written, proc |-> proc,
              before |-> path]

\* a processor call on the persisted layers: the transformation result r (its
\* status and rows), then the persist step when the transformation succeeded
CallOutcome(proc, r, path, files) ==
    IF r.status # "ok"
    THEN [status |-> r.status, path |-> path, written |-> {}, proc |-> proc, before |-> path]
    ELSE LET w == Persist(path, files)
         IN  [status |-> w.status, path |-> w.path, written |-> w.written, proc |-> proc,
              before |-> path]

LastCall(o) == [proc |-> o.proc, status |-> o.status, written |-> o.written, before |-> o.before]

\* ---- inputs of the repeated calls

PersistCollisionFiles ==
    {<<>>,
     <<CollisionCsvRow(<<"0","7","/","0","4","/","2","0","2","1">>, <<"B", "K">>, <<"2">>)>>,
     <<CollisionCsvRow(<<"1","2","/","3","1","/","2","0","1","9">>, <<>>, <<>>),
       CollisionCsvRow(<<"0","7","/","0","4","/","2","0","2","1">>, <<"B", "K">>, <<"-", "1">>)>>,
     <<CollisionCsvRow(<<"2","0","2","1","-","0","7","-","0","4">>, <<>>, <<"2">>)>>}

PersistHolidayFiles ==
    {<<r>> : r \in HolidayRecords}
    \cup {<<HolidayRecord(<<"2","0","2","1","-","0","7","-","0","4">>, "Independence Day", <<"Public">>),
            HolidayRecord(<<"2","0","2","0","-","0","1","-","0","1">>, "New Year's Day", <<"Public">>)>>}

PersistWeatherFiles ==
    {<<WeatherCsvRow(<<"2","0","2","1","-","0","7","-","0","4">>, <<" ", "2", "5", "0">>, <<" ", "5", "0">>, <<>>)>>,
     <<WeatherCsvRow(<<"2","0","2","0","-","0","1","-","0","1">>, <<>>, <<>>, <<" ", "1">>)>>,
     <<WeatherCsvRow(<<"2","0","2","1","-","0","7","-","0","4">>, <<"a", "b", "c">>, <<>>, <<>>)>>}

PersistGoldCollisions ==
    {<<>>, <<CollisionRow(DJul4, "BK", TRUE, 1)>>,
     <<CollisionRow(DJul4, "BK", TRUE, 1), CollisionRow(D2020, "BK", FALSE, 0)>>}

InitPersist ==
    /\ silver_dir \in [{"collisions", "holidays", "weather"} -> {Absent, RegularFile}]
    /\ gold_dir \in {Dir({}), RegularFile}
    /\ last_call = [proc |-> "none", status |-> "ok", written |-> {}, before |-> Absent]
    /\ IdleGold /\ IdleColl /\ IdleWeather /\ IdleFetch /\ IdleDl /\ IdleMain /\ IdleRest

\* process_collisions(input_data, output_path = <silver>/collisions)
run_process_collisions ==
    /\ last_call # <<>>
    /\ \E file \in PersistCollisionFiles, mode \in {"Path", "DataFrame"} :
          LET r == TransformCollisions(LoadCollisions(file, mode), FALSE)
              o == CallOutcome("collisions", r, silver_dir["collisions"],
                               PartitionFiles(r.rows, {"year", "month"}))
          IN  /\ silver_dir' = [silver_dir EXCEPT !["collisions"] = o.path]
              /\ last_call' = LastCall(o)
    /\ UNCHANGED gold_dir
    /\ UNCHANGED <<goldVars, collVars, weatherVars, fetchVars, dlVars, mainVars, restVars>>

\* process_holidays(input_data, output_path = <silver>/holidays)
run_process_holidays ==
    /\ last_call # <<>>
    /\ \E file \in PersistHolidayFiles, kind \in {"DataFrame", "None"} :
          \E r \in (IF LoadInput(kind).status # "loaded"
                    THEN {Failed(LoadInput(kind).status)}
                    ELSE HolidaysResults(file)) :
              LET o == CallOutcome("holidays", r, silver_dir["holidays"],
                                   PartitionFiles(r.rows, {"year"}))
              IN  /\ silver_dir' = [silver_dir EXCEPT !["holidays"] = o.path]
                  /\ last_call' = LastCall(o)
    /\ UNCHANGED gold_dir
    /\ UNCHANGED <<goldVars, collVars, weatherVars, fetchVars, dlVars, mainVars, restVars>>

\* process_weather(input_data, output_path = <silver>/weather)
run_process_weather ==
    /\ last_call # <<>>
    /\ \E file \in PersistWeatherFiles, mode \in {"Path", "DataFrame"} :
          LET r == WeatherResult(file, mode)
              o == CallOutcome("weather", r, silver_dir["weather"],
                               PartitionFiles(r.rows, {"year", "month"}))
          IN  /\ silver_dir' = [silver_dir EXCEPT !["weather"] = o.path]
              /\ last_call' = LastCall(o)
    /\ UNCHANGED gold_dir
    /\ UNCHANGED <<goldVars, collVars, weatherVars, fetchVars, dlVars, mainVars, restVars>>

\* the three inputs of process_gold_data: in-memory tables, or a text in the
\* place of the holidays table
PersistGoldKinds ==
    {<<"DataFrame", "DataFrame", "DataFrame">>, <<"DataFrame", "str", "DataFrame">>}

\* process_gold_data(collisions_data, holidays_data, weather_data,
\* gold_base_path): normalize, enrich (the collect raises when the collisions
\* table has no date column), aggregate, persist
run_process_gold_data ==
    /\ last_call # <<>>
    /\ \E c \in PersistGoldCollisions, h \in SeqsUpTo({HolidayRow(DJul4, "Independence Day", <<"Public">>)}, 1),
          kinds \in PersistGoldKinds, has_date \in BOOLEAN :
          \E g \in _aggregate_stats(_enrich_collisions(c, h, <<>>)) :
              LET n == NormalizeInputs(kinds, FALSE)
                  r == IF n.status # "loaded" THEN Failed(n.status)
                       ELSE IF ~has_date THEN Failed("ColumnNotFoundError")
                       ELSE Ok(g)
                  o == CallOutcome("gold", r, gold_dir, GoldFiles(g))
              IN  /\ gold_dir' = o.path
                  /\ last_call' = LastCall(o)
    /\ UNCHANGED silver_dir
    /\ UNCHANGED <<goldVars, collVars, weatherVars, fetchVars, dlVars, mainVars, restVars>>

NextPersist ==
    \/ run_process_collisions
    \/ run_process_holidays
    \/ run_process_weather
    \/ run_process_gold_data

SpecPersist == InitPersist /\ [][NextPersist]_vars

----------------------------------------------------------------------------
(* BronzeExtractor.fetch_holidays *)

RECURSIVE Concat(_)
\* the concatenation of a sequence of sequences
Concat(ss) == IF ss = <<>> THEN <<>> ELSE Head(ss) \o Concat(Tail(ss))

YearText(year) ==
    CASE year = 2019 -> <<"2", "0", "1", "9">> [] year = 2020 -> <<"2", "0", "2", "0">>
      [] year = 2021 -> <<"2", "0", "2", "1">> [] year = 2022 -> <<"2", "0", "2", "2">>
      [] year = 2023 -> <<"2", "0", "2", "3">>

NewYear(year) ==
    HolidayRecord(YearText(year) \o <<"-", "0", "1", "-", "0", "1">>, "New Year's Day", <<"Public">>)
July4(year) ==
    HolidayRecord(YearText(year) \o <<"-", "0", "7", "-", "0", "4">>, "Independence Day", <<"Public">>)

\* the payloads the API can answer for a year: no holiday, one, two
Payloads(year) == {<<>>, <<NewYear(year)>>, <<NewYear(year), July4(year)>>}

\* an accumulation that keeps only the last payload
Overwrite(collected, payload) == payload

\* all_holidays.extend(response.json())
Extend(collected, payload) == collected \o payload

MaxYears == 3

YearLists == {<<>>, <<2020>>, <<2020, 2021>>, <<2020, 2021, 2022>>, <<2020, 2021, 2022, 2023>>}

StaleHolidays == <<NewYear(2019)>>

InitFetch ==
    /\ fh_years \in {y \in YearLists : Len(y) <= MaxYears}
    /\ fh_i = 1
    /\ all_holidays = <<>>
    /\ fh_outcomes = <<>>
    /\ holidays_file \in {Null, Some(StaleHolidays)}
    /\ fh_file_at_start = holidays_file
    /\ fh_result = [status |-> "running"]
    /\ fhPc = "loop"
    /\ IdleGold /\ IdleColl /\ IdleWeather /\ IdlePersist /\ IdleDl /\ IdleMain /\ IdleRest

\* one iteration of the loop: the request succeeds, its payload is appended
fh_request_ok ==
    /\ fhPc = "loop" /\ fh_i <= Len(fh_years)
    /\ \E payload \in Payloads(fh_years[fh_i]) :
          /\ all_holidays' = Extend(all_holidays, payload)
          /\ fh_outcomes' = Append(fh_outcomes, Some(payload))
    /\ fh_i' = fh_i + 1
    /\ UNCHANGED <<fh_years, holidays_file, fh_file_at_start, fh_result, fhPc>>
    /\ UNCHANGED <<goldVars, collVars, weatherVars, persistVars, dlVars, mainVars, restVars>>

\* one iteration of the loop: the request raises a RequestException (connection
\* error, timeout, error status, invalid JSON), which is logged and skipped
fh_request_fails ==
    /\ fhPc = "loop" /\ fh_i <= Len(fh_years)
    /\ fh_outcomes' = Append(fh_outcomes, Null)
    /\ fh_i' = fh_i + 1
    /\ UNCHANGED <<fh_years, all_holidays, holidays_file, fh_file_at_start, fh_result, fhPc>>
    /\ UNCHANGED <<goldVars, collVars, weatherVars, persistVars, dlVars, mainVars, restVars>>

\* the guard clause that is never taken
GuardNever(collected) == FALSE

\* the guard clause: `if not all_holidays`
GuardNoData(collected) == collected = <<>>

\* after the loop: the guard clause, the save to disk, the table.  Building the
\* table from the records either succeeds or raises (it is re-raised)
fh_finish ==
    /\ fhPc = "loop" /\ fh_i > Len(fh_years)
    /\ IF GuardNoData(all_holidays)
       THEN /\ fh_result' = [status |-> "RuntimeError: No holidays data fetched"]
            /\ UNCHANGED holidays_file
       ELSE /\ holidays_file' = Some(all_holidays)
            /\ \E built \in BOOLEAN :
                  fh_result' = IF built THEN [status |-> "ok", df |-> all_holidays]
                               ELSE [status |-> "DataFrameError"]
    /\ fhPc' = "done"
    /\ UNCHANGED <<fh_years, fh_i, all_holidays, fh_outcomes, fh_file_at_start>>
    /\ UNCHANGED <<goldVars, collVars, weatherVars, persistVars, dlVars, mainVars, restVars>>

NextFetch == fh_request_ok \/ fh_request_fails \/ fh_finish

SpecFetch == InitFetch /\ [][NextFetch]_vars

----------------------------------------------------------------------------
(* BronzeExtractor.download_file_from_url *)

\* the responses the server can stream: the header line, then one line per row
Bodies ==
    {<<"header">>,
     <<"header", WeatherCsvRow(<<"2","0","2","1","-","0","7","-","0","4">>, <<"2", "5", "0">>, <<>>, <<>>)>>,
     <<"header", WeatherCsvRow(<<"2","0","2","1","-","0","7","-","0","4">>, <<" ", "2", "5", "0">>, <<>>, <<>>),
       WeatherCsvRow(<<"2","0","1","9","-","1","2","-","3","1">>, <<>>, <<>>, <<>>)>>}

\* pl.read_csv(output_path, ignore_errors=True, infer_schema_length=10000):
\* a file without even a header line raises NoDataError
ReadBronzeCsv(chunks) ==
    IF chunks = <<>> THEN [status |-> "NoDataError"]
    ELSE [status |-> "ok",
          df |-> ReadCsv(Tail(chunks), WeatherCsvCols, BronzeInferSchemaLength),
          path |-> "output_path"]

MaxCalls == 3

InitDownload ==
    /\ bronze_file = Null
    /\ dl_body = <<>>
    /\ dl_requests = 0
    /\ dl_file_at_start = Null
    /\ dl_result = [status |-> "running"]
    /\ dl_calls = 1
    /\ dlPc = "start"
    /\ IdleGold /\ IdleColl /\ IdleWeather /\ IdlePersist /\ IdleFetch /\ IdleMain /\ IdleRest

DlFrame == UNCHANGED <<goldVars, collVars, weatherVars, persistVars, fetchVars, mainVars, restVars>>

\* a cache check that always downloads
NeverCached(file) == FALSE

\* `if output_path.exists()`
IsCached(file) == ~IsNull(file)

\* ensure_directory, then the cache check
dl_start ==
    /\ dlPc = "start"
    /\ dlPc' = IF IsCached(bronze_file) THEN "read" ELSE "get"
    /\ UNCHANGED <<bronze_file, dl_body, dl_requests, dl_file_at_start, dl_result, dl_calls>>
    /\ DlFrame

\* session.get(url, stream=True, timeout=60), raise_for_status(): the request
\* fails (connection error, timeout, retries exhausted, error status) or the
\* response is there to be streamed
dl_get ==
    /\ dlPc = "get"
    /\ dl_requests' = dl_requests + 1
    /\ \/ /\ dlPc' = "except"
          /\ UNCHANGED dl_body
       \/ /\ dl_body' \in Bodies
          /\ dlPc' = "open"
    /\ UNCHANGED <<bronze_file, dl_file_at_start, dl_result, dl_calls>>
    /\ DlFrame

\* open(output_path, 'wb'): creates the empty file, or raises OSError
dl_open ==
    /\ dlPc = "open"
    /\ \/ /\ bronze_file' = Some(<<>>)
          /\ dlPc' = "stream"
          /\ UNCHANGED dl_result
       \/ /\ dl_result' = [status |-> "OSError"]
          /\ dlPc' = "done"
          /\ UNCHANGED bronze_file
    /\ UNCHANGED <<dl_body, dl_requests, dl_file_at_start, dl_calls>>
    /\ DlFrame

\* for chunk in response.iter_content(...): f.write(chunk)
dl_chunk ==
    /\ dlPc = "stream"
    /\ \/ \* the next chunk arrives and is written
          /\ dl_body # <<>>
          /\ bronze_file' = Some(Append(bronze_file[1], Head(dl_body)))
          /\ dl_body' = Tail(dl_body)
          /\ UNCHANGED <<dl_result, dlPc>>
       \/ \* the stream is exhausted: the file is closed
          /\ dl_body = <<>>
          /\ dlPc' = "read"
          /\ UNCHANGED <<bronze_file, dl_body, dl_result>>
       \/ \* the connection breaks while streaming: a RequestException
          /\ dl_body # <<>>
          /\ dlPc' = "except"
          /\ UNCHANGED <<bronze_file, dl_body, dl_result>>
       \/ \* writing the chunk fails (disk full): an OSError, which the
          \* `except requests.exceptions.RequestException` clause does not catch
          /\ dl_body # <<>>
          /\ dl_result' = [status |-> "OSError"]
          /\ dlPc' = "done"
          /\ UNCHANGED <<bronze_file, dl_body>>
    /\ UNCHANGED <<dl_requests, dl_file_at_start, dl_calls>>
    /\ DlFrame

\* except RequestException: delete the incomplete file, re-raise
dl_except ==
    /\ dlPc = "except"
    /\ bronze_file' = Null
    /\ dl_result' = [status |-> "RequestException"]
    /\ dlPc' = "done"
    /\ UNCHANGED <<dl_body, dl_requests, dl_file_at_start, dl_calls>>
    /\ DlFrame

\* pl.read_csv(output_path, ...); return df, output_path
dl_read ==
    /\ dlPc = "read"
    /\ dl_result' = ReadBronzeCsv(bronze_file[1])
    /\ dlPc' = "done"
    /\ UNCHANGED <<bronze_file, dl_body, dl_requests, dl_file_at_start, dl_calls>>
    /\ DlFrame

\* a later run of the pipeline calls download_file_from_url again
dl_call_again ==
    /\ dlPc = "done" /\ dl_calls < MaxCalls
    /\ dl_calls' = dl_calls + 1
    /\ dl_requests' = 0
    /\ dl_body' = <<>>
    /\ dl_file_at_start' = bronze_file
    /\ dl_result' = [status |-> "running"]
    /\ dlPc' = "start"
    /\ UNCHANGED bronze_file
    /\ DlFrame

NextDownload ==
    dl_start \/ dl_get \/ dl_open \/ dl_chunk \/ dl_except \/ dl_read \/ dl_call_again

SpecDownload == InitDownload /\ [][NextDownload]_vars

----------------------------------------------------------------------------
(* main and run_pipeline *)

\* the body of run_pipeline's try block, in program order; process_gold_data is
\* its transformation, its clean_output_directory and its two writes
STEPS == <<"setup", "ingest_collisions", "ingest_holidays", "ingest_weather",
           "silver_collisions", "silver_holidays", "silver_weather",
           "gold_transform", "gold_clean", "gold_write">>

StepIndex(step) == CHOOSE i \in 1..Len(STEPS) : STEPS[i] = step

\* what a step can raise: an error derived from Exception, the user's
\* interrupt, a panic of the query engine (derived from BaseException only)
RaisedClasses == {"RuntimeError", "KeyboardInterrupt", "PanicException"}

\* issubclass(cls, Exception)
IsException(cls) == cls \in {"RuntimeError"}

\* `except Exception` of run_pipeline
PipelineCatches(cls) == IsException(cls)

\* a failing step whose error is swallowed: the run goes on with the next step
ContinueAfter(step) == IF StepIndex(step) < Len(STEPS) THEN STEPS[StepIndex(step) + 1] ELSE "returned"

\* where control goes when a step raises: out of the try block of run_pipeline
AfterRaise(step) == "pipeline_unwind"

\* the status the interpreter gives a KeyboardInterrupt nobody caught: CPython
\* before 3.8 prints the traceback and exits with 1, later versions end the
\* process by SIGINT, which a POSIX shell reports as 130
UncaughtInterruptStatus == {1, 130}

\* the gold directory after a step failed: rmtree may have removed part of the
\* tree before it raised, a write may have left part of its output
GoldAfterFailure(step, g) ==
    IF step = "gold_clean" THEN {g, "wiped"}
    ELSE IF step = "gold_write" THEN {g, "written"}
    ELSE {g}

\* the gold directory after a step completed
GoldAfter(step, g) ==
    IF step = "gold_clean" THEN "wiped" ELSE IF step = "gold_write" THEN "written" ELSE g

InitMain ==
    /\ verbose \in BOOLEAN
    /\ ppc = "main"
    /\ exc = NoExc
    /\ raised = "none"
    /\ failed_step = "none"
    /\ steps_started = <<>>
    /\ gold_in_run = "untouched"
    /\ exit_status = -1
    /\ IdleGold /\ IdleColl /\ IdleWeather /\ IdlePersist /\ IdleFetch /\ IdleDl /\ IdleRest

MainFrame == UNCHANGED <<goldVars, collVars, weatherVars, persistVars, fetchVars, dlVars, restVars>>

\* main up to the call of run_pipeline: arguments, environment, log level
main_enter ==
    /\ ppc = "main"
    /\ ppc' = STEPS[1]
    /\ UNCHANGED <<verbose, exc, raised, failed_step, steps_started, gold_in_run, exit_status>>
    /\ MainFrame

\* the user interrupts main before it entered its try block
main_interrupted ==
    /\ ppc = "main"
    /\ exc' = [cls |-> "KeyboardInterrupt", code |-> 0]
    /\ raised' = "KeyboardInterrupt"
    /\ ppc' = "interpreter"
    /\ UNCHANGED <<verbose, failed_step, steps_started, gold_in_run, exit_status>>
    /\ MainFrame

\* a step of run_pipeline runs to completion
step_completes ==
    /\ ppc \in Range(STEPS)
    /\ steps_started' = Append(steps_started, ppc)
    /\ gold_in_run' = GoldAfter(ppc, gold_in_run)
    /\ ppc' = IF StepIndex(ppc) < Len(STEPS) THEN STEPS[StepIndex(ppc) + 1] ELSE "returned"
    /\ UNCHANGED <<verbose, exc, raised, failed_step, exit_status>>
    /\ MainFrame

\* a step of run_pipeline raises
step_raises ==
    /\ ppc \in Range(STEPS)
    /\ \E cls \in RaisedClasses :
          /\ exc' = [cls |-> cls, code |-> 0]
          /\ raised' = cls
    /\ steps_started' = Append(steps_started, ppc)
    /\ failed_step' = ppc
    /\ gold_in_run' \in GoldAfterFailure(ppc, gold_in_run)
    /\ ppc' = AfterRaise(ppc)
    /\ UNCHANGED <<verbose, exit_status>>
    /\ MainFrame

\* run_pipeline's `except Exception`: log, sys.exit(1); anything else propagates
pipeline_except ==
    /\ ppc = "pipeline_unwind"
    /\ exc' = IF PipelineCatches(exc.cls) THEN [cls |-> "SystemExit", code |-> 1] ELSE exc
    /\ ppc' = "main_unwind"
    /\ UNCHANGED <<verbose, raised, failed_step, steps_started, gold_in_run, exit_status>>
    /\ MainFrame

\* run_pipeline returned: main logs and calls sys.exit(0), inside its try block
main_success ==
    /\ ppc = "returned"
    /\ exc' = [cls |-> "SystemExit", code |-> 0]
    /\ ppc' = "main_unwind"
    /\ UNCHANGED <<verbose, raised, failed_step, steps_started, gold_in_run, exit_status>>
    /\ MainFrame

\* main's handlers: `except KeyboardInterrupt` -> sys.exit(130),
\* `except Exception` -> sys.exit(1); SystemExit and other BaseExceptions pass
main_except ==
    /\ ppc = "main_unwind"
    /\ exc' = IF exc.cls = "KeyboardInterrupt" THEN [cls |-> "SystemExit", code |-> 130]
              ELSE IF IsException(exc.cls) THEN [cls |-> "SystemExit", code |-> 1]
              ELSE exc
    /\ ppc' = "interpreter"
    /\ UNCHANGED <<verbose, raised, failed_step, steps_started, gold_in_run, exit_status>>
    /\ MainFrame

\* the user interrupts again while main's `except KeyboardInterrupt` handler is
\* logging: the new KeyboardInterrupt leaves main
main_except_interrupted ==
    /\ ppc = "main_unwind"
    /\ exc.cls = "KeyboardInterrupt"
    /\ ppc' = "interpreter"
    /\ UNCHANGED <<verbose, exc, raised, failed_step, steps_started, gold_in_run, exit_status>>
    /\ MainFrame

\* the interpreter ends the process: SystemExit(n) gives status n, any other
\* uncaught exception prints its traceback and gives status 1
interpreter_exit ==
    /\ ppc = "interpreter"
    /\ exit_status' \in IF exc.cls = "SystemExit" THEN {exc.code}
                       ELSE IF exc.cls = "KeyboardInterrupt" THEN UncaughtInterruptStatus
                       ELSE {1}
    /\ ppc' = "exited"
    /\ UNCHANGED <<verbose, exc, raised, failed_step, steps_started, gold_in_run>>
    /\ MainFrame

NextPipeline ==
    \/ main_enter
    \/ main_interrupted
    \/ step_completes
    \/ step_raises
    \/ pipeline_except
    \/ main_success
    \/ main_except
    \/ main_except_interrupted
    \/ interpreter_exit

SpecPipeline == InitMain /\ [][NextPipeline]_vars

----------------------------------------------------------------------------
(* Calls of the processors with every input representation *)

InitTypes ==
    /\ ty_proc \in Standardizers \cup {"process_gold_data"}
    /\ ty_inputs \in IF ty_proc = "process_gold_data" THEN [1..3 -> InputKinds]
                     ELSE [1..1 -> InputKinds]
    /\ ty_result = [status |-> "running"]
    /\ tyPc = "start"
    /\ IdleGold /\ IdleColl /\ IdleWeather /\ IdlePersist /\ IdleFetch /\ IdleDl /\ IdleMain
    /\ IdleHol /\ IdleRerun

TypesFrame ==
    UNCHANGED <<goldVars, collVars, weatherVars, persistVars, fetchVars, dlVars, mainVars,
                holVars, rerunVars>>

\* a standardizer is called: its first step is the load of input_data
standardizer_load ==
    /\ tyPc = "start" /\ ty_proc \in Standardizers
    /\ ty_result' = LoadInput(ty_inputs[1])
    /\ tyPc' = "done"
    /\ UNCHANGED <<ty_proc, ty_inputs>>
    /\ TypesFrame

\* process_gold_data is called: its first step normalizes the three inputs
gold_normalize ==
    /\ tyPc = "start" /\ ty_proc = "process_gold_data"
    /\ \E scan_raises \in BOOLEAN : ty_result' = NormalizeInputs(ty_inputs, scan_raises)
    /\ tyPc' = "done"
    /\ UNCHANGED <<ty_proc, ty_inputs>>
    /\ TypesFrame

NextTypes == standardizer_load \/ gold_normalize

SpecTypes == InitTypes /\ [][NextTypes]_vars

----------------------------------------------------------------------------
(* process_holidays called again, and on an input with duplicates *)

MaxHolidayRecords == 2

InitHolidays ==
    /\ hol_input \in SeqsUpTo(HolidayRecords, MaxHolidayRecords)
    /\ \E extra \in SeqsUpTo(Range(hol_input), 2) : hol_with_dups = hol_input \o extra
    /\ hol_first = [status |-> "running"]
    /\ hol_again = [status |-> "running"]
    /\ hol_dedup = [status |-> "running"]
    /\ holPc = {}
    /\ IdleGold /\ IdleColl /\ IdleWeather /\ IdlePersist /\ IdleFetch /\ IdleDl /\ IdleMain
    /\ IdleTypes /\ IdleRerun

HolidaysFrame ==
    UNCHANGED <<goldVars, collVars, weatherVars, persistVars, fetchVars, dlVars, mainVars,
                typeVars, rerunVars>>

\* process_holidays(hol_input, ...)
process_holidays_first ==
    /\ "first" \notin holPc /\ "idle" \notin holPc
    /\ hol_first' \in HolidaysResults(hol_input)
    /\ holPc' = holPc \cup {"first"}
    /\ UNCHANGED <<hol_input, hol_with_dups, hol_again, hol_dedup>>
    /\ HolidaysFrame

\* process_holidays(hol_input, ...) once more, after the first call
process_holidays_again ==
    /\ "first" \in holPc /\ "again" \notin holPc
    /\ hol_again' \in HolidaysResults(hol_input)
    /\ holPc' = holPc \cup {"again"}
    /\ UNCHANGED <<hol_input, hol_with_dups, hol_first, hol_dedup>>
    /\ HolidaysFrame

\* process_holidays(hol_with_dups, ...)
process_holidays_dups ==
    /\ "dups" \notin holPc /\ "idle" \notin holPc
    /\ hol_dedup' \in HolidaysResults(hol_with_dups)
    /\ holPc' = holPc \cup {"dups"}
    /\ UNCHANGED <<hol_input, hol_with_dups, hol_first, hol_again>>
    /\ HolidaysFrame

NextHolidays == process_holidays_first \/ process_holidays_again \/ process_holidays_dups

SpecHolidays == InitHolidays /\ [][NextHolidays]_vars

----------------------------------------------------------------------------
(* Two runs of the pipeline over the same raw inputs *)

MaxRerunCollisions == 2

\* the aggregate tables one run can write for the standardized tables: the
\* holidays come out of unique() in some order, the groups out of group_by in
\* some order that sort("date") then arranges by date
GoldOutputs(collisions, holidays, weather) ==
    UNION {_aggregate_stats(_enrich_collisions(collisions, h, weather)) : h \in Perms(holidays)}

InitRerun ==
    /\ rr_collisions \in SeqsUpTo(CollisionRows, MaxRerunCollisions)
    /\ rr_holidays \in {hs \in SUBSET HolidayRows : Cardinality(hs) <= MaxHolidays}
    /\ rr_weather \in SeqsUpTo(WeatherRows, 1)
    /\ rr_first = <<>>
    /\ rr_second = <<>>
    /\ rrPc = 0
    /\ IdleGold /\ IdleColl /\ IdleWeather /\ IdlePersist /\ IdleFetch /\ IdleDl /\ IdleMain
    /\ IdleTypes /\ IdleHol

RerunFrame ==
    UNCHANGED <<goldVars, collVars, weatherVars, persistVars, fetchVars, dlVars, mainVars,
                typeVars, holVars>>

\* the first run of the pipeline writes its aggregate table
pipeline_first_run ==
    /\ rrPc = 0
    /\ rr_first' \in GoldOutputs(rr_collisions, rr_holidays, rr_weather)
    /\ rrPc' = 1
    /\ UNCHANGED <<rr_collisions, rr_holidays, rr_weather, rr_second>>
    /\ RerunFrame

\* the second run, over the same raw inputs, wipes the gold directory and
\* writes its own aggregate table
pipeline_second_run ==
    /\ rrPc = 1
    /\ rr_second' \in GoldOutputs(rr_collisions, rr_holidays, rr_weather)
    /\ rrPc' = 2
    /\ UNCHANGED <<rr_collisions, rr_holidays, rr_weather, rr_first>>
    /\ RerunFrame

NextRerun == pipeline_first_run \/ pipeline_second_run

SpecRerun == InitRerun /\ [][NextRerun]_vars

----------------------------------------------------------------------------
(* C1 *)

HolidaysOn(d) == Count(LAMBDA h : h.date = d, holidays_data)
WeatherOn(d) == Count(LAMBDA w : w.date = d, weather_data)
Max1(n) == IF n > 1 THEN n ELSE 1

TotalAccidents == SumSeq([i \in 1..Len(df_gold) |-> df_gold[i].total_accidents])

Collisions2020 == SelectSeq(collisions_data, LAMBDA c : c.date.year >= 2020)

\* C1 (as stated): the total_accidents of the aggregate rows sum to the number
\* of standardized collision rows whose date has year >= 2020
C1_Original ==
    goldPc = "done" => TotalAccidents = Len(Collisions2020)

\* C1 (amended): the total_accidents of the aggregate rows sum to the number of
\* standardized collision rows with year >= 2020, each counted once per pair of
\* holiday row and weather row on its date (once when there is none)
C1_TotalsWithFanOut ==
    goldPc = "done" =>
        TotalAccidents =
            SumSeq([i \in 1..Len(Collisions2020) |->
                      Max1(HolidaysOn(Collisions2020[i].date))
                      * Max1(WeatherOn(Collisions2020[i].date))])

C1_Witness ==
    /\ goldPc = "done"
    /\ Len(Collisions2020) >= 2
    /\ Len(Collisions2020) < Len(collisions_data)
    /\ \E i \in 1..Len(Collisions2020) : HolidaysOn(Collisions2020[i].date) = 1
    /\ TotalAccidents = Len(Collisions2020)

----------------------------------------------------------------------------
(* C2 *)

\* the rows of the raw file that process_collisions keeps (CRASH DATE present)
KeptCsvRows == SelectSeq(bronze_collisions, LAMBDA r : r["CRASH DATE"] # <<>>)

\* C2: every returned row has all 8 metric counters non-null and
\* non-negative, whatever the source value was, and the call never fails on
\* account of a metric value (checked for the builds whose fill_null(0) accepts
\* a text column, so that a violation never rests on that difference)
C2_Original ==
    (collPc = "done" /\ ~fill_null_text_raises) =>
        /\ df_collisions_silver.status = "ok"
              \/ \E i \in 1..Len(KeptCsvRows) :
                    IsNull(ParseDate(KeptCsvRows[i]["CRASH DATE"], "%m/%d/%Y"))
        /\ \A i \in 1..Len(df_collisions_silver.rows) : \A m \in METRIC_COLS :
              /\ ~IsNull(df_collisions_silver.rows[i].metrics[m])
              /\ df_collisions_silver.rows[i].metrics[m][1] >= 0

----------------------------------------------------------------------------
(* C3 *)

\* C3: process_weather gives the same result (the same error, or the same
\* table) for the in-memory table read by download_file_from_url and for the
\* path to that file
C3_SameResultBothInputs ==
    weatherPc = {"mem", "path"} =>
        df_weather_mem = df_weather_path

----------------------------------------------------------------------------
(* C4 *)

OutputDirOf(proc) == IF proc = "gold" THEN gold_dir ELSE silver_dir[proc]

\* C4: after a successful call of a standardizer or of process_gold_data, its
\* output directory holds exactly the files that call wrote, whatever the
\* earlier calls had left there
C4_OnlyFilesOfThisCall ==
    (last_call # <<>> /\ last_call.proc # "none" /\ last_call.status = "ok") =>
        /\ OutputDirOf(last_call.proc).kind = "dir"
        /\ OutputDirOf(last_call.proc).files = last_call.written

\* a call that succeeded on a directory where an earlier call had written a
\* partition this call does not write
C4_Witness ==
    /\ last_call # <<>> /\ last_call.proc = "collisions" /\ last_call.status = "ok"
    /\ last_call.written # {}
    /\ \E f \in last_call.before.files : \A g \in last_call.written : g.path # f.path

----------------------------------------------------------------------------
(* C5 *)

FetchDone == fhPc = "done"

SuccessfulPayloads ==
    Concat([i \in 1..Len(SelectSeq(fh_outcomes, LAMBDA o : ~IsNull(o))) |->
              SelectSeq(fh_outcomes, LAMBDA o : ~IsNull(o))[i][1]])

SomeRequestSucceeded == \E i \in 1..Len(fh_outcomes) : ~IsNull(fh_outcomes[i])

----------------------------------------------------------------------------
(* C6 *)

\* C6: when no request succeeded, fetch_holidays fails with the 'no data
\* fetched' error and the file at output_path is as it was before the call
C6_NoDataNoWrite ==
    (FetchDone /\ ~SomeRequestSucceeded) =>
        /\ fh_result.status = "RuntimeError: No holidays data fetched"
        /\ holidays_file = fh_file_at_start

C6_Witness ==
    /\ FetchDone /\ Len(fh_outcomes) = 2 /\ ~SomeRequestSucceeded
    /\ holidays_file = Some(StaleHolidays)

----------------------------------------------------------------------------
(* C7 *)

----------------------------------------------------------------------------
(* C8 *)

\* C8: whenever download_file_from_url fails while downloading, no file is left
\* at output_path
C8_NoPartialFile ==
    (dlPc = "done" /\ IsNull(dl_file_at_start)
        /\ dl_result.status \in {"RequestException", "OSError"}) =>
        IsNull(bronze_file)

----------------------------------------------------------------------------
(* C9 *)

----------------------------------------------------------------------------
(* C10 *)

IsPrefix(s, t) == Len(s) <= Len(t) /\ \A i \in 1..Len(s) : s[i] = t[i]

\* C10: the steps run in program order (the three ingestions, the three
\* standardizations, then the aggregation), each started only after every
\* earlier one completed; once a step has failed no later step is started, so
\* that after the failure of a step that precedes the clean-up of the gold
\* directory that directory is neither wiped nor written in the run
C10_OrderAndAbort ==
    /\ IsPrefix(steps_started, STEPS)
    /\ gold_in_run # "untouched" => Len(steps_started) >= StepIndex("gold_clean")
    /\ failed_step # "none" =>
          /\ steps_started # <<>> /\ steps_started[Len(steps_started)] = failed_step
          /\ StepIndex(failed_step) < StepIndex("gold_clean") => gold_in_run = "untouched"

C10_Witness ==
    /\ ppc = "exited" /\ failed_step = "ingest_holidays"
    /\ steps_started = <<"setup", "ingest_collisions", "ingest_holidays">>
    /\ gold_in_run = "untouched"

----------------------------------------------------------------------------
(* C11 *)

Supported(kind) == IsDataFrame(kind) \/ IsPath(kind)

UnsupportedInputs == {i \in DOMAIN ty_inputs : ~Supported(ty_inputs[i])}

FirstUnsupported == CHOOSE i \in UnsupportedInputs : \A j \in UnsupportedInputs : i <= j

\* C11: a processor entry point given an input that is neither an in-memory
\* table nor a path fails, with a TypeError (for process_gold_data: about the
\* first such input, the inputs before it being tables or paths that can be
\* scanned)
C11_UnsupportedInputTypeError ==
    (tyPc = "done" /\ UnsupportedInputs # {}) =>
        /\ ty_result.status \in {"TypeError", "ScanError"}
        /\ (\A j \in 1..(FirstUnsupported - 1) : ty_inputs[j] # "PathNoFiles") =>
              /\ ty_result.status = "TypeError"
              /\ ty_proc = "process_gold_data" => ty_result.table = GoldTables[FirstUnsupported]

C11_Witness ==
    /\ tyPc = "done" /\ ty_proc = "process_gold_data"
    /\ ty_inputs = <<"DataFrame", "Path", "str">>
    /\ ty_result = [status |-> "TypeError", table |-> "weather"]

----------------------------------------------------------------------------
(* C12 *)

\* the (date, holiday_name, types) of the rows of a table
HolidayKeys(rows) == [i \in 1..Len(rows) |->
                        <<rows[i].date, rows[i].holiday_name, rows[i].types>>]

\* C12: process_holidays returns no two rows with the same date, holiday_name
\* and types, and it returns the same set of rows when it is run again on the
\* same input and when it is run on that input with exact duplicates added
C12_IdempotentDeduplicating ==
    holPc = {"first", "again", "dups"} =>
        /\ hol_again.status = hol_first.status
        /\ hol_dedup.status = hol_first.status
        /\ hol_first.status = "ok" =>
              /\ NoDuplicates(HolidayKeys(hol_first.rows))
              /\ NoDuplicates(HolidayKeys(hol_dedup.rows))
              /\ Range(hol_again.rows) = Range(hol_first.rows)
              /\ Range(hol_dedup.rows) = Range(hol_first.rows)

C12_Witness ==
    /\ holPc = {"first", "again", "dups"}
    /\ hol_first.status = "ok"
    /\ Len(hol_input) = 2 /\ hol_input[1] = hol_input[2]
    /\ Len(hol_with_dups) = 4
    /\ Len(hol_dedup.rows) = 1

----------------------------------------------------------------------------
(* C13 *)

\* the enriched rows that come from the collision row c
EnrichedOf(c) ==
    SelectSeq(df_enriched, LAMBDA e : /\ e.date = c.date /\ e.borough = c.borough
                                      /\ e.is_weekend = c.is_weekend /\ e.metrics = c.metrics)

\* C13: every collision row of 2020 or later is in the enriched table; when no
\* holiday record has its date it has holiday_name "Non-Holiday" and the three
\* holiday flags false, and when no weather record has its date it has has_rain,
\* has_snow and is_foggy false
C13_DefaultFill ==
    goldPc = "done" =>
        \A i \in 1..Len(collisions_data) :
            LET c == collisions_data[i]
            IN  YearFilter(c) =>
                  /\ EnrichedOf(c) # <<>>
                  /\ \A k \in 1..Len(EnrichedOf(c)) :
                        LET e == EnrichedOf(c)[k]
                        IN  /\ HolidaysOn(c.date) = 0 =>
                                  /\ e.holiday_name = "Non-Holiday"
                                  /\ ~e.high_impact_holiday
                                  /\ ~e.partial_impact_holiday
                                  /\ ~e.low_impact_holiday
                            /\ WeatherOn(c.date) = 0 =>
                                  ~e.has_rain /\ ~e.has_snow /\ ~e.is_foggy

C13_Witness ==
    /\ goldPc = "done"
    /\ Len(holidays_data) = 1 /\ holidays_data[1].date = DJul4
    /\ Len(weather_data) = 1 /\ weather_data[1].date = DJul4
    /\ Len(df_enriched) = 2
    /\ df_enriched[1].date = D2020 /\ df_enriched[1].holiday_name = "Non-Holiday"
    /\ ~df_enriched[1].has_rain
    /\ df_enriched[2].date = DJul4 /\ df_enriched[2].has_rain

----------------------------------------------------------------------------
(* C14 *)

\* C14: two runs of the pipeline over unchanged raw inputs write the same
\* aggregate rows in the same order, rows that share a date included
C14_SameOutputOnRerun ==
    rrPc = 2 => rr_second = rr_first

----------------------------------------------------------------------------
(* C15 *)

\* a raw weather row dated 2020-01-01 or later whose TMAX is non-numeric text
NonNumericTmax(r) ==
    /\ r["DATE"] # <<>> /\ TextGeq(r["DATE"], Date2020)
    /\ ~IsNull(ParseDate(r["DATE"], "%Y-%m-%d"))
    /\ r["TMAX"] # <<>> /\ IsNull(ParseInt(StripChars(r["TMAX"])))

\* C15: process_weather keeps a row dated 2020-01-01 or later whose
\* temperature is non-numeric text, with a null temperature, and does not fail
\* on it (checked on the call that reads every column as text and on files
\* whose other cells are well-formed)
C15_NonNumericTemperatureKept ==
    ("path" \in weatherPc /\ Len(bronze_weather) = 1 /\ NonNumericTmax(bronze_weather[1])) =>
        /\ df_weather_path.status = "ok"
        /\ Len(df_weather_path.rows) = 1
        /\ df_weather_path.rows[1].date = ParseDate(bronze_weather[1]["DATE"], "%Y-%m-%d")[1]
        /\ IsNull(df_weather_path.rows[1].temp_max_c)

----------------------------------------------------------------------------
(* C16 *)

\* the grouping key of an enriched row: date, borough, zip_code, is_weekend,
\* holiday_name, the 3 holiday flags, the 3 weather flags, max_temp, min_temp
KeyOfEnriched(e) ==
    [date |-> e.date, borough |-> e.borough, zip_code |-> e.zip_code,
     is_weekend |-> e.is_weekend, holiday_name |-> e.holiday_name,
     high_impact_holiday |-> e.high_impact_holiday,
     partial_impact_holiday |-> e.partial_impact_holiday,
     low_impact_holiday |-> e.low_impact_holiday,
     has_rain |-> e.has_rain, has_snow |-> e.has_snow, is_foggy |-> e.is_foggy,
     max_temp |-> e.max_temp, min_temp |-> e.min_temp]

\* C16: the aggregate table has exactly one row for each grouping key present
\* in the enriched table and no other row, and the row's total_accidents is the
\* number of enriched rows with its key
C16_OneRowPerKey ==
    goldPc = "done" =>
        /\ \A i \in 1..Len(df_enriched) :
              Cardinality({j \in 1..Len(df_gold) :
                              df_gold[j].key = KeyOfEnriched(df_enriched[i])}) = 1
        /\ \A j \in 1..Len(df_gold) :
              /\ \E i \in 1..Len(df_enriched) : KeyOfEnriched(df_enriched[i]) = df_gold[j].key
              /\ df_gold[j].total_accidents =
                    Count(LAMBDA e : KeyOfEnriched(e) = df_gold[j].key, df_enriched)

\* 3 collisions on one date with the same borough and zip, one Public holiday
\* and rainy weather: one row with total_accidents = 3
C16_Witness ==
    /\ goldPc = "done"
    /\ Len(collisions_data) = 3 /\ Len(df_enriched) = 3
    /\ Len(df_gold) = 1
    /\ df_gold[1].total_accidents = 3
    /\ df_gold[1].key.high_impact_holiday
    /\ df_gold[1].key.has_rain

----------------------------------------------------------------------------
(* C17 *)

\* C17: a processor call whose load or transformation failed (unsupported
\* type, missing column, unparsable date, failed cast) leaves every output
\* directory, its own included, exactly as it was before the call
C17_FailureLeavesOutput ==
    [][(last_call'.proc # "none" /\ last_call'.status \notin {"ok", "FileExistsError"})
          => (silver_dir' = silver_dir /\ gold_dir' = gold_dir)]_vars

\* process_gold_data was given a text for a table while its directory held
\* the files of an earlier call, and the files are still there
C17_Witness ==
    /\ last_call # <<>> /\ last_call.proc = "gold" /\ last_call.status = "TypeError"
    /\ gold_dir.kind = "dir" /\ gold_dir.files # {}
    /\ gold_dir = last_call.before

====
